---- MODULE Spec2Model ----
(***************************************************************************)
(* Model of clean_transcript (src/ucsd_podcast_transcriber.py), the        *)
(* transcript-cleaning engine of UCSDPodcastTranscriber.                   *)
(*                                                                         *)
(* A text is a sequence of characters, each character a one-element        *)
(* string.  Characters outside ASCII are written by code point ("U+5927"). *)
(* Indices held in variables are Python's 0-based indices; a sequence is   *)
(* read at index k as s[k + 1].                                            *)
(***************************************************************************)
EXTENDS Integers, Sequences, FiniteSets, TLC

----------------------------------------------------------------------------
(* Characters and the character classes the regular expressions use.       *)

LowerSeq ==
  <<"a","b","c","d","e","f","g","h","i","j","k","l","m",
    "n","o","p","q","r","s","t","u","v","w","x","y","z">>

UpperSeq ==
  <<"A","B","C","D","E","F","G","H","I","J","K","L","M",
    "N","O","P","Q","R","S","T","U","V","W","X","Y","Z">>

Range(f) == {f[k] : k \in DOMAIN f}

LowerCase == Range(LowerSeq)
UpperCase == Range(UpperSeq)
AsciiLetter == LowerCase \cup UpperCase
Digit == {"0","1","2","3","4","5","6","7","8","9"}

\* [U+4E00-U+9FAF] : the CJK ideographs of the model's alphabet
Chinese == {"U+5927", "U+5BB6", "U+597D"}
\* the class of accented letters : the accented letter (e acute) of the model's alphabet
Accented == {"U+00E9"}
\* [U+AC00-U+D7A3], [U+3041-U+3093 U+30A1-U+30F3], [U+0430-U+044F U+0410-U+042F] :
\* the Hangul, kana and Cyrillic characters of the model's alphabet
Korean == {"U+D55C"}
Japanese == {"U+3042"}
Cyrillic == {"U+0434"}
\* the capital I with a dot above, and the combining dot above: str.lower() turns the
\* first into an i followed by the second
DottedI == "U+0130"
CombiningDot == "U+0307"

\* \s
Space == {" ", "\n", "\t"}
\* [.!?]
Terminal == {".", "!", "?"}
\* \w
WordChar ==
  AsciiLetter \cup Digit \cup {"_", DottedI} \cup Chinese \cup Accented \cup Korean \cup Japanese
    \cup Cyrillic

\* the lower case of one character, as one character
LowerOf == [c \in UpperCase |-> LowerSeq[CHOOSE k \in 1..26 : UpperSeq[k] = c]]
ToLower(c) == IF c \in UpperCase THEN LowerOf[c] ELSE IF c = DottedI THEN "i" ELSE c

\* s as re.IGNORECASE compares it: character by character, the positions kept
Fold(s) == SubSeq([k \in 1..Len(s) |-> ToLower(s[k])], 1, Len(s))

RECURSIVE LowerFrom(_, _)
LowerFrom(s, k) ==
  IF k > Len(s) THEN <<>>
  ELSE (IF s[k] = DottedI THEN <<"i", CombiningDot>> ELSE <<ToLower(s[k])>>)
         \o LowerFrom(s, k + 1)

\* str.lower(): one character longer than s for every dotted capital I in s
Lower(s) == IF \A k \in 1..Len(s) : s[k] # DottedI THEN Fold(s) ELSE LowerFrom(s, 1)

\* number of leading characters of s, read from 0-based position p, that are in class c
RECURSIVE RunLen(_, _, _)
RunLen(s, p, c) ==
  IF p < Len(s) /\ s[p + 1] \in c THEN 1 + RunLen(s, p + 1, c) ELSE 0

\* number of trailing characters of s[1..n] that are in class c
RECURSIVE RunLenBack(_, _, _)
RunLenBack(s, n, c) ==
  IF n > 0 /\ s[n] \in c THEN 1 + RunLenBack(s, n - 1, c) ELSE 0

\* str.lstrip(), str.strip()
LStrip(s) == SubSeq(s, RunLen(s, 0, Space) + 1, Len(s))
Strip(s) ==
  LET t == LStrip(s) IN SubSeq(t, 1, Len(t) - RunLenBack(t, Len(t), Space))

----------------------------------------------------------------------------
(* Regular expressions, as the re module matches them: Ends(r, s, p) is    *)
(* the sequence of positions at which a match of r starting at position p  *)
(* of s can end, in the order backtracking tries them (greedy first).      *)

Lit(w) == [t |-> "lit", w |-> w]
Cls(c) == [t |-> "cls", c |-> c]
Star(c) == [t |-> "star", c |-> c]
Plus(c) == [t |-> "plus", c |-> c]
Opt(r) == [t |-> "opt", r |-> r]
Alt(rs) == [t |-> "alt", rs |-> rs]
Cat(rs) == [t |-> "cat", rs |-> rs]
WordB == [t |-> "wordb"]
Bol == [t |-> "bol"]
Eol == [t |-> "eol"]
LookBehind(c) == [t |-> "behind", c |-> c]

\* \b at position p of s
IsWordBoundary(s, p) ==
  LET before == p > 0 /\ s[p] \in WordChar
      after == p < Len(s) /\ s[p + 1] \in WordChar
  IN before # after

\* p, p-1, ..., lo
RECURSIVE Down(_, _)
Down(p, lo) == IF p < lo THEN <<>> ELSE <<p>> \o Down(p - 1, lo)

RECURSIVE Ends(_, _, _)
RECURSIVE AltEnds(_, _, _, _)
RECURSIVE CatEnds(_, _, _, _)
RECURSIVE CatFrom(_, _, _, _, _)

Ends(r, s, p) ==
  CASE r.t = "lit" ->
         IF p + Len(r.w) <= Len(s) /\ s[p + 1] = r.w[1] /\ SubSeq(s, p + 1, p + Len(r.w)) = r.w
         THEN <<p + Len(r.w)>> ELSE <<>>
    [] r.t = "cls" -> IF p < Len(s) /\ s[p + 1] \in r.c THEN <<p + 1>> ELSE <<>>
    [] r.t = "star" -> Down(p + RunLen(s, p, r.c), p)
    [] r.t = "plus" -> Down(p + RunLen(s, p, r.c), p + 1)
    [] r.t = "opt" -> Ends(r.r, s, p) \o <<p>>
    [] r.t = "alt" -> AltEnds(r.rs, 1, s, p)
    [] r.t = "cat" -> CatEnds(r.rs, 1, s, p)
    [] r.t = "wordb" -> IF IsWordBoundary(s, p) THEN <<p>> ELSE <<>>
    [] r.t = "behind" -> IF p > 0 /\ s[p] \in r.c THEN <<p>> ELSE <<>>
    [] r.t = "bol" -> IF p = 0 THEN <<p>> ELSE <<>>
    [] r.t = "eol" ->
         IF p = Len(s) \/ (p = Len(s) - 1 /\ s[Len(s)] = "\n") THEN <<p>> ELSE <<>>

AltEnds(rs, k, s, p) ==
  IF k > Len(rs) THEN <<>> ELSE Ends(rs[k], s, p) \o AltEnds(rs, k + 1, s, p)

CatEnds(rs, k, s, p) ==
  IF k > Len(rs) THEN <<p>> ELSE CatFrom(rs, k, s, Ends(rs[k], s, p), 1)

CatFrom(rs, k, s, es, j) ==
  IF j > Len(es) THEN <<>>
  ELSE CatEnds(rs, k + 1, s, es[j]) \o CatFrom(rs, k, s, es, j + 1)

\* the positions of s, from p on, at which a match of r starts
MatchStarts(r, s, p) == {q \in p..Len(s) : Ends(r, s, q) # <<>>}

Min(S) == CHOOSE x \in S : \A y \in S : x <= y

\* re.search(r, s): the match as <<start, end>>, or <<>> when there is none
Search(r, s) ==
  LET starts == MatchStarts(r, s, 0)
  IN IF starts = {} THEN <<>> ELSE <<Min(starts), Ends(r, s, Min(starts))[1]>>

\* the matches re.finditer(r, s) yields, as <<start, end>> pairs, for a pattern
\* that matches no empty string: leftmost first, without overlap; starts is the
\* set of positions at which a match starts
RECURSIVE MatchesFrom(_, _, _, _)
MatchesFrom(r, s, starts, p) ==
  LET rest == {q \in starts : q >= p}
  IN IF rest = {} THEN <<>>
     ELSE LET b == Min(rest)
              e == Ends(r, s, b)[1]
          IN <<<<b, e>>>> \o MatchesFrom(r, s, rest, e)

Matches(r, s) == MatchesFrom(r, s, MatchStarts(r, s, 0), 0)

\* s with the stretches ms[k], ms[k+1], ... replaced by repl, read from position p on
RECURSIVE ReplaceFrom(_, _, _, _, _)
ReplaceFrom(s, ms, k, p, repl) ==
  IF k > Len(ms) THEN SubSeq(s, p + 1, Len(s))
  ELSE SubSeq(s, p + 1, ms[k][1]) \o repl \o ReplaceFrom(s, ms, k + 1, ms[k][2], repl)

\* re.sub(r, repl, s) for a pattern that matches no empty string
Sub(r, repl, s) == ReplaceFrom(s, Matches(r, s), 1, 0, repl)

\* re.sub(r, '', s, flags=re.IGNORECASE) for a pattern r written in lower case
\* that matches no empty string: the matches are found in the folded text
SubIgnoreCase(r, s) == ReplaceFrom(s, Matches(r, Fold(s)), 1, 0, <<>>)

----------------------------------------------------------------------------
(* First pass: the hallucination patterns, removed from the whole text.    *)

hallucination_patterns ==
  << Plus(Korean),
     Plus(Chinese),
     Plus(Japanese),
     Plus(Cyrillic),
     Cat(<<WordB, Opt(Cls(LowerCase)), Star(LowerCase), Cls(Accented), Star(LowerCase), WordB>>),
     Cat(<<WordB,
           Alt(<<Lit(<<"s","y","'","n">>), Lit(<<"g","y","m","s">>), Lit(<<"g","y","f","l","e",
               "n">>), Lit(<<"n","e","w","i","d","d","a">>),
                 Lit(<<"r","o","e","d","d">>), Lit(<<"g","w","i","l","i","a">>), Lit(<<"g","y",
                     "f","l","y">>), Lit(<<"c","a","n","y","a","n">>),
                 Lit(<<"a","y","a","g">>), Lit(<<"t","e","u">>), Lit(<<"a","u","n">>)>>),
           WordB>>),
     Cat(<<WordB, Lit(<<"i","a","g">>), WordB>>) >>

RECURSIVE RemoveAll(_, _, _)
RemoveAll(ps, k, s) ==
  IF k > Len(ps) THEN s ELSE RemoveAll(ps, k + 1, SubIgnoreCase(ps[k], s))

\* cleaned_text after the loop over hallucination_patterns
Normalize(text) == RemoveAll(hallucination_patterns, 1, text)

----------------------------------------------------------------------------
(* Sentence split: re.split(r'(?<=[.!?])\s+', cleaned_text).               *)

\* a boundary at every run of whitespace, whatever comes before it
SentenceBoundaryAnyBlank == Plus(Space)

\* (?<=[.!?])\s+
SentenceBoundary == Cat(<<LookBehind(Terminal), Plus(Space)>>)

\* the pieces of s between the stretches ms[k], ms[k+1], ..., read from position p on
RECURSIVE PiecesFrom(_, _, _, _)
PiecesFrom(s, ms, k, p) ==
  IF k > Len(ms) THEN <<SubSeq(s, p + 1, Len(s))>>
  ELSE <<SubSeq(s, p + 1, ms[k][1])>> \o PiecesFrom(s, ms, k + 1, ms[k][2])

SplitSentences(s) == PiecesFrom(s, Matches(SentenceBoundary, s), 1, 0)

----------------------------------------------------------------------------
(* is_coherent_english                                                     *)

common_words ==
  { <<"t","h","e">>, <<"a">>, <<"a","n">>, <<"i","s">>, <<"a","r","e">>, <<"w","a","s">>, <<"w",
      "e","r","e">>, <<"b","e">>, <<"b","e","e","n">>,
    <<"h","a","v","e">>, <<"h","a","s">>, <<"h","a","d">>, <<"d","o">>, <<"d","o","e","s">>, <<"d",
        "i","d">>, <<"w","i","l","l">>, <<"w","o","u","l","d">>,
    <<"c","o","u","l","d">>, <<"s","h","o","u","l","d">>, <<"m","a","y">>, <<"m","i","g","h",
        "t">>, <<"m","u","s","t">>, <<"s","h","a","l","l">>, <<"c","a","n">>,
    <<"t","o">>, <<"o","f">>, <<"i","n">>, <<"f","o","r">>, <<"o","n">>, <<"w","i","t","h">>,
        <<"a","t">>, <<"b","y">>, <<"f","r","o","m">>,
    <<"t","h","i","s">>, <<"t","h","a","t">>, <<"t","h","e","s","e">>, <<"t","h","o","s","e">>,
        <<"i","t">>, <<"i","t","s">>, <<"y","o","u">>, <<"y","o","u","r">>,
    <<"w","e">>, <<"o","u","r">>, <<"t","h","e","y">>, <<"t","h","e","i","r">>, <<"i">>, <<"m",
        "y">>, <<"m","e">>, <<"h","e">>, <<"s","h","e">>,
    <<"a","n","d">>, <<"o","r">>, <<"b","u","t">>, <<"i","f">>, <<"s","o">>, <<"a","s">>, <<"w",
        "h","a","t">>, <<"w","h","i","c","h">>, <<"w","h","o">>,
    <<"h","o","w">>, <<"w","h","e","n">>, <<"w","h","e","r","e">>, <<"w","h","y">>, <<"a","l",
        "l">>, <<"e","a","c","h">>, <<"e","v","e","r","y">>, <<"b","o","t","h">>,
    <<"f","e","w">>, <<"m","o","r","e">>, <<"m","o","s","t">>, <<"o","t","h","e","r">>, <<"s",
        "o","m","e">>, <<"s","u","c","h">>, <<"n","o">>, <<"n","o","t">>,
    <<"o","n","l","y">>, <<"s","a","m","e">>, <<"t","h","a","n">>, <<"t","o","o">>, <<"v","e",
        "r","y">>, <<"j","u","s","t">>, <<"a","l","s","o">>, <<"n","o","w">>,
    <<"h","e","r","e">>, <<"t","h","e","r","e">>, <<"t","h","e","n">>, <<"o","n","c","e">>, <<"g",
        "o","i","n","g">>, <<"w","a","n","t">>, <<"n","e","e","d">>,
    <<"l","i","k","e">>, <<"k","n","o","w">>, <<"t","h","i","n","k">>, <<"s","e","e">>, <<"g",
        "e","t">>, <<"m","a","k","e">>, <<"t","a","k","e">>, <<"c","o","m","e">>,
    <<"r","i","g","h","t">>, <<"o","k","a","y">>, <<"w","e","l","l">>, <<"y","e","a","h">>, <<"y",
        "e","s">>, <<"r","e","a","l","l","y">>,
    <<"t","o","d","a","y">>, <<"a","l","r","e","a","d","y">>, <<"u","s","e">>, <<"u","s","i",
        "n","g">>, <<"c","o","p","y">>, <<"l","o","c","a","l">>, <<"l","a","p","t","o","p">> }

\* re.findall(r, s) for a pattern that matches no empty string
FindAll(r, s) ==
  LET ms == Matches(r, s) IN [k \in 1..Len(ms) |-> SubSeq(s, ms[k][1] + 1, ms[k][2])]

\* re.findall(r'\b[a-zA-Z]+\b', s.lower())
Words(s) == FindAll(Cat(<<WordB, Plus(AsciiLetter), WordB>>), Lower(s))

\* a classifier whose ratio test is strict: more than a quarter of the words
is_coherent_english_strict(sentence) ==
  LET s == Strip(sentence)
      words == Words(s)
      english_word_count == Cardinality({k \in 1..Len(words) : words[k] \in common_words})
  IN IF Len(s) < 10 THEN FALSE
     ELSE IF Len(words) < 3 THEN FALSE
     ELSE IF english_word_count >= 3 THEN TRUE
     ELSE 4 * english_word_count > Len(words)

is_coherent_english(sentence) ==
  LET s == Strip(sentence)
      words == Words(s)
      english_word_count == Cardinality({k \in 1..Len(words) : words[k] \in common_words})
  IN IF Len(s) < 10 THEN FALSE
     ELSE IF Len(words) < 3 THEN FALSE
     ELSE IF english_word_count >= 3 THEN TRUE
     ELSE 4 * english_word_count >= Len(words)

----------------------------------------------------------------------------
(* The pattern lists and sets of the boundary stages.                      *)

lecture_start_patterns ==
  << Cat(<<Opt(Alt(<<Lit(<<"o","k","a","y">>), Lit(<<"a","l","r","i","g","h","t">>), Lit(<<"s",
      "o">>), Lit(<<"w","e","l","l">>),
                     Lit(<<"h","e","y">>), Lit(<<"h","i">>), Lit(<<"h","e","l","l","o">>)>>)),
           Opt(Lit(<<",">>)), Star(Space), Lit(<<"m","y"," ","f","r","i","e","n","d","s">>)>>),
     Cat(<<Opt(Alt(<<Lit(<<"o","k","a","y">>), Lit(<<"a","l","r","i","g","h","t">>), Lit(<<"s",
         "o">>), Lit(<<"w","e","l","l">>)>>)),
           Opt(Lit(<<",">>)), Star(Space), Lit(<<"t","o","d","a","y">>)>>),
     Cat(<<Lit(<<"w","e","l","c","o","m","e">>), Plus(Space),
           Alt(<<Lit(<<"t","o">>), Lit(<<"b","a","c","k">>), Lit(<<"e","v","e","r","y","o","n",
               "e">>)>>)>>),
     Cat(<<Opt(Cat(<<Lit(<<"g","o","o","d">>), Plus(Space)>>)),
           Alt(<<Lit(<<"m","o","r","n","i","n","g">>), Lit(<<"a","f","t","e","r","n","o","o",
               "n">>), Lit(<<"e","v","e","n","i","n","g">>)>>)>>),
     Cat(<<Lit(<<"l","e","t","'","s">>), Plus(Space),
           Alt(<<Cat(<<Lit(<<"g","e","t">>), Plus(Space), Lit(<<"s","t","a","r","t","e","d">>)>>),
                 Lit(<<"b","e","g","i","n">>), Lit(<<"s","t","a","r","t">>), Lit(<<"t","a","l",
                     "k">>), Lit(<<"l","o","o","k">>)>>)>>),
     Cat(<<Lit(<<"w","e","'","r","e">>), Plus(Space), Lit(<<"g","o","i","n","g">>), Plus(Space),
         Lit(<<"t","o">>)>>),
     Cat(<<Lit(<<"g","o","i","n","g">>), Plus(Space), Lit(<<"t","o">>), Plus(Space), Lit(<<"b",
         "e">>),
           Plus(Space), Lit(<<"a">>)>>),
     Cat(<<Lit(<<"h","e","l","l","o">>), Plus(Space),
           Alt(<<Lit(<<"e","v","e","r","y","o","n","e">>), Lit(<<"e","v","e","r","y","b","o",
               "d","y">>), Lit(<<"c","l","a","s","s">>)>>)>>) >>

chatter_patterns ==
  << Cat(<<Bol, Lit(<<"h","e","y">>), Opt(Lit(<<".">>)), Eol>>),
     Lit(<<"a","m"," ","i"," ","a","l","l","o","w","e","d"," ","t","o">>),
     Cat(<<Lit(<<"c","a","n"," ","i"," ">>), Alt(<<Lit(<<"a","s","k">>), Lit(<<"g","e","t">>)>>)>>),
     Lit(<<"i"," ","l","o","v","e"," ","t","o"," ","h","a","v","e">>),
     Lit(<<"t","h","i","s"," ","i","s"," ","l","i","k","e"," ","d","o","i","n","g">>),
     Cat(<<Bol, Lit(<<"o","k","a","y">>), Opt(Lit(<<".">>)), Eol>>),
     Cat(<<Bol, Lit(<<"y","e","a","h">>), Opt(Lit(<<".">>)), Eol>>),
     Cat(<<Bol, Lit(<<"r","i","g","h","t">>), Opt(Lit(<<".">>)), Eol>>),
     Cat(<<Bol, Lit(<<"s","u","r","e">>), Opt(Lit(<<".">>)), Eol>>) >>

thank_you_variants ==
  { <<"t","h","a","n","k"," ","y","o","u",".">>, <<"t","h","a","n","k"," ","y","o","u">>, <<"t",
      "h","a","n","k","s",".">>, <<"t","h","a","n","k","s">>,
    <<"t","h","a","n","k"," ","y","o","u","!">>, <<"t","h","a","n","k","s","!">>, <<"b","y","e",
        ".">>, <<"b","y","e">>, <<"g","o","o","d","b","y","e",".">>,
    <<"g","o","o","d","b","y","e">>, <<"s","e","e"," ","y","o","u",".">>, <<"s","e","e"," ","y",
        "o","u">>, <<"o","k","a","y",".">>, <<"o","k","a","y">>,
    <<"a","l","r","i","g","h","t",".">>, <<"a","l","r","i","g","h","t">>, <<"h","e","y",".">>,
        <<"h","e","y">>, <<"y","e","a","h",".">>, <<"y","e","a","h">> }

informal_indicators ==
  << <<"o","k","a","y">>, <<"a","l","r","i","g","h","t">>, <<"h","e","y">>, <<"y","e","a","h">>,
      <<"u","m">>, <<"u","h">>,
     <<"l","i","k","e">>, <<"i"," ","m","e","a","n">>, <<"y","o","u"," ","k","n","o","w">>, <<"r",
         "i","g","h","t">> >>

\* the leftmost match of any pattern of ps in s, whatever the pattern's place in the list
FirstMatchLeftmost(ps, k, s) ==
  LET found == {m \in {Search(ps[j], s) : j \in k..Len(ps)} : m # <<>>}
  IN IF found = {} THEN <<>> ELSE CHOOSE m \in found : \A o \in found : m[1] <= o[1]

\* the first pattern of ps, in list order, that re.search finds in s:
\* <<start, end>> of its match, or <<>> when no pattern matches
RECURSIVE FirstMatch(_, _, _)
FirstMatch(ps, k, s) ==
  IF k > Len(ps) THEN <<>>
  ELSE LET m == Search(ps[k], s)
       IN IF m # <<>> THEN m ELSE FirstMatch(ps, k + 1, s)

\* w in s (substring test)
Contains(s, w) == \E p \in 0..(Len(s) - Len(w)) : SubSeq(s, p + 1, p + Len(w)) = w

\* len(s.split())
RECURSIVE WordCountFrom(_, _)
WordCountFrom(s, p) ==
  LET q == p + RunLen(s, p, Space)
  IN IF q >= Len(s) THEN 0
     ELSE 1 + WordCountFrom(s, q + RunLen(s, q, (Range(s) \ Space)))

WordCount(s) == WordCountFrom(s, 0)

----------------------------------------------------------------------------
(* Assembly of the cleaned text.                                           *)

\* ' '.join(ss)
RECURSIVE Join(_)
Join(ss) ==
  IF Len(ss) = 0 THEN <<>>
  ELSE IF Len(ss) = 1 THEN ss[1]
  ELSE ss[1] \o <<" ">> \o Join(Tail(ss))

\* a slip in the replacement text: every run becomes two blanks
CollapseWhitespaceWide(s) == Sub(Plus(Space), <<" ", " ">>, s)

\* re.sub(r'\s+', ' ', s)
CollapseWhitespace(s) == Sub(Plus(Space), <<" ">>, s)

\* re.sub(r'^[,.\s]+', '', s)
StripLeadingPunct(s) == SubSeq(s, RunLen(s, 0, {",", "."} \cup Space) + 1, Len(s))

\* sentences[start:end + 1]
SliceThroughEnd(ss, start, end) ==
  SubSeq(ss, start + 1, IF end + 1 > Len(ss) THEN Len(ss) ELSE end + 1)

\* sentences[start:]
SliceToLast(ss, start, end) == SubSeq(ss, start + 1, Len(ss))

\* sentences[start:end] of Python, for 0 <= start
Slice(ss, start, end) ==
  IF end < 0 THEN SubSeq(ss, start + 1, Len(ss) + end)
  ELSE SubSeq(ss, start + 1, IF end > Len(ss) THEN Len(ss) ELSE end)

\* cleaned_sentences, after the character offset has been applied to its first element
TrimFirst(cs, offset) ==
  IF offset > 0 /\ Len(cs) > 0
  THEN <<LStrip(SubSeq(cs[1], offset + 1, Len(cs[1])))>> \o Tail(cs)
  ELSE cs

\* the text clean_transcript returns for the kept range
AssembleText(ss, start, end, offset) ==
  StripLeadingPunct(Strip(CollapseWhitespace(Join(TrimFirst(Slice(ss, start, end), offset)))))

----------------------------------------------------------------------------
(* The tests the boundary stages apply to one sentence or one window.      *)

\* sentences[k], and the empty text where Python raises IndexError
At(ss, k) == IF k \in 0..(Len(ss) - 1) THEN ss[k + 1] ELSE <<>>

\* is_coherent_english(sentence) and len(sentence) > 50
Substantial(sentence) == Len(sentence) > 50 /\ is_coherent_english(sentence)

\* a guard that lets i + 2 run past the last sentence
LookAheadInRangeOffByOne(i, n) == i + 1 < n

\* the guard of the look-ahead at sentences[i + 1], sentences[i + 2]
LookAheadInRange(i, n) == i + 2 < n

\* some chatter pattern is found in the trimmed, lower-cased sentence
IsChatter(sentence) ==
  LET sentence_lower == Lower(Strip(sentence))
  IN \E k \in 1..Len(chatter_patterns) : Search(chatter_patterns[k], sentence_lower) # <<>>

\* range(len(sentences) - 1, max(0, len(sentences) - 30), -1) stops above this index
ChatterScanStop(n) == IF n - 30 > 0 THEN n - 30 ELSE 0

\* Python truth of chatter_start_index
None == -1
Truthy(x) == x # None /\ x # 0

\* the trailing strip drops the sentence
DropsLast(sentence) ==
  LET last_sentence == Lower(Strip(sentence))
      word_count == WordCount(last_sentence)
      informal_count ==
        Cardinality({k \in 1..Len(informal_indicators) :
                       Contains(last_sentence, informal_indicators[k])})
  IN \/ last_sentence \in thank_you_variants
     \/ Len(last_sentence) < 15
     \/ word_count < 10 /\ informal_count >= 2

\* a loop condition that stops one sentence early
StripRunsOffByOne(start, end) == end > start + 1

\* the trailing strip's loop condition
StripRuns(start, end) == end > start

\* the repetition check is entered
CollapserRuns(start, end) == end > start + 5

\* a stop value one lower, which makes max(end_index - 15, start_index) a candidate
CollapserStopInclusive(start, end) == (IF end - 15 > start THEN end - 15 ELSE start) - 1

\* range(end_index - 1, max(end_index - 15, start_index), -1) stops above this index
CollapserStop(start, end) == IF end - 15 > start THEN end - 15 ELSE start

\* count of Counter(remaining).most_common(1)[0]
MostCommonCount(remaining) ==
  LET counts == {Cardinality({j \in 1..Len(remaining) : remaining[j] = remaining[k]}) :
                   k \in 1..Len(remaining)}
  IN CHOOSE c \in counts : \A d \in counts : c >= d

\* the window sentences[i:end_index] is a repeated run
IsRepeatedRun(ss, i, end) ==
  LET window == Slice(ss, i, end)
      remaining == [k \in 1..Len(window) |-> Lower(Strip(window[k]))]
  IN Len(remaining) >= 3 /\ 5 * MostCommonCount(remaining) >= 3 * Len(remaining)

----------------------------------------------------------------------------
(* The texts clean_transcript is run on: up to MaxPieces pieces of         *)
(* recognizer output, separated by one blank, the two transcripts of the   *)
(* documented examples, two transcripts that end in repeated runs, one     *)
(* that ends in an informal sentence, one of sentences on the thresholds   *)
(* of the coherence test, and one with a dotted capital I.                 *)

MaxPieces == 3

Pieces ==
  << <<"T","h","a","n","k"," ","y","o","u",".">>,
     <<"O","k","a","y",".">>,
     <<"H","i",","," ","t","o","d","a","y"," "," ","w","e","\n","c","o","v","e","r"," ","t","r",
         "e","e","s",".">>,
     <<"W","e","l","c","o","m","e"," ","b","a","c","k",".">>,
     <<"W","e"," ","w","i","l","l"," ","c","o","v","e","r"," ","t","h","e"," ","t","r","a","v",
         "e","r","s","a","l"," ","a","l","g","o","r","i","t","h","m","s"," ","o","f"," ","t",
         "h","e"," ","g","r","a","p","h","s",".">>,
     <<"U+5927","U+5BB6","U+597D"," ","c","a","f","U+00E9">>,
     <<"I","t"," ","i","s"," ","s","o"," ","a","g","a","i","n","."," ","I","t"," ","i","s"," ",
         "s","o"," ","a","g","a","i","n","."," ","I","t"," ","i","s"," ","s","o"," ","a","g",
         "a","i","n",".">> >>

GraphsExample ==
  <<"U+5927","U+5BB6","U+597D"," ","H","e","l","l","o"," ","e","v","e","r","y","o","n","e",",",
      " ","w","e","l","c","o","m","e"," ","t","o"," ","t","o","d","a","y","'","s"," ","l","e",
      "c","t","u","r","e"," ","o","n"," ","g","r","a","p","h","s"," ","a","n","d"," ","t","r",
      "e","e","s",","," ","t","h","i","s"," ","i","s"," ","g","o","i","n","g"," ","t","o"," ",
      "b","e"," ","a"," ","g","r","e","a","t"," ","c","l","a","s","s","."," ","W","e"," ","w",
      "i","l","l"," ","c","o","v","e","r"," ","t","r","a","v","e","r","s","a","l"," ","a","l",
      "g","o","r","i","t","h","m","s","."," ","T","h","a","n","k"," ","y","o","u","."," ","T",
      "h","a","n","k"," ","y","o","u","."," ","T","h","a","n","k"," ","y","o","u",".">>

GraphsExpected ==
  <<"t","o","d","a","y","'","s"," ","l","e","c","t","u","r","e"," ","o","n"," ","g","r","a","p",
      "h","s"," ","a","n","d"," ","t","r","e","e","s",","," ","t","h","i","s"," ","i","s"," ",
      "g","o","i","n","g"," ","t","o"," ","b","e"," ","a"," ","g","r","e","a","t"," ","c","l",
      "a","s","s","."," ","W","e"," ","w","i","l","l"," ","c","o","v","e","r"," ","t","r","a",
      "v","e","r","s","a","l"," ","a","l","g","o","r","i","t","h","m","s",".">>

ProofExample ==
  <<"W","e"," ","s","t","a","t","e"," ","t","h","e"," ","t","h","e","o","r","e","m"," ","a","b",
      "o","u","t"," ","b","i","p","a","r","t","i","t","e"," ","g","r","a","p","h","s","."," ",
      "T","h","e"," ","f","i","r","s","t"," ","c","a","s","e"," ","i","s"," ","t","h","a","t",
      " ","t","h","e"," ","g","r","a","p","h"," ","h","a","s"," ","n","o"," ","e","d","g","e",
      "s","."," ","T","h","e"," ","s","e","c","o","n","d"," ","c","a","s","e"," ","i","s"," ",
      "t","h","a","t"," ","t","h","e"," ","g","r","a","p","h"," ","h","a","s"," ","o","n","e",
      " ","c","y","c","l","e","."," ","W","e"," ","c","o","l","o","r"," ","t","h","e"," ","v",
      "e","r","t","i","c","e","s"," ","o","f"," ","t","h","e"," ","c","y","c","l","e","."," ",
      "E","v","e","r","y"," ","e","d","g","e"," ","j","o","i","n","s"," ","t","w","o"," ","c",
      "o","l","o","r","s","."," ","I","t"," ","f","o","l","l","o","w","s"," ","t","h","a","t",
      " ","t","h","e"," ","p","r","o","o","f"," ","i","s"," ","c","o","m","p","l","e","t","e",
      "."," ","O","k","a","y","."," ","O","k","a","y","."," ","O","k","a","y","."," ","O","k",
      "a","y","."," ","O","k","a","y",".">>

\* a transcript of eight sentences, five of them the same, the first one among them
RepeatExample ==
  <<"I","t"," ","i","s"," ","s","o"," ","a","g","a","i","n","."," ","I","t"," ","i","s"," ","s",
      "o"," ","a","g","a","i","n","."," ","I","t"," ","i","s"," ","s","o"," ","a","g","a","i",
      "n","."," ","I","t"," ","i","s"," ","s","o"," ","a","g","a","i","n","."," ","C","a","s",
      "e"," ","a"," ","i","s"," ","s","o"," ","a","g","a","i","n","."," ","I","t"," ","i","s",
      " ","s","o"," ","a","g","a","i","n","."," ","C","a","s","e"," ","b"," ","i","s"," ","s",
      "o"," ","a","g","a","i","n","."," ","C","a","s","e"," ","c"," ","i","s"," ","s","o"," ",
      "a","g","a","i","n",".">>

\* a transcript of seventeen sentences whose last thirteen are a repeated run
LongExample ==
  <<"C","a","s","e"," ","f"," ","i","s"," ","s","o"," ","a","g","a","i","n","."," ","C","a","s",
      "e"," ","g"," ","i","s"," ","s","o"," ","a","g","a","i","n","."," ","C","a","s","e"," ",
      "h"," ","i","s"," ","s","o"," ","a","g","a","i","n","."," ","C","a","s","e"," ","i"," ",
      "i","s"," ","s","o"," ","a","g","a","i","n","."," ","I","t"," ","i","s"," ","s","o"," ",
      "a","g","a","i","n","."," ","I","t"," ","i","s"," ","s","o"," ","a","g","a","i","n",".",
      " ","I","t"," ","i","s"," ","s","o"," ","a","g","a","i","n","."," ","C","a","s","e"," ",
      "a"," ","i","s"," ","s","o"," ","a","g","a","i","n","."," ","I","t"," ","i","s"," ","s",
      "o"," ","a","g","a","i","n","."," ","C","a","s","e"," ","b"," ","i","s"," ","s","o"," ",
      "a","g","a","i","n","."," ","I","t"," ","i","s"," ","s","o"," ","a","g","a","i","n",".",
      " ","I","t"," ","i","s"," ","s","o"," ","a","g","a","i","n","."," ","C","a","s","e"," ",
      "c"," ","i","s"," ","s","o"," ","a","g","a","i","n","."," ","I","t"," ","i","s"," ","s",
      "o"," ","a","g","a","i","n","."," ","C","a","s","e"," ","d"," ","i","s"," ","s","o"," ",
      "a","g","a","i","n","."," ","I","t"," ","i","s"," ","s","o"," ","a","g","a","i","n",".",
      " ","C","a","s","e"," ","e"," ","i","s"," ","s","o"," ","a","g","a","i","n",".">>

\* a transcript whose last sentence has one informal word, "alright"
TailExample ==
  <<"H","i",","," ","t","o","d","a","y"," ","w","e"," ","c","o","v","e","r"," ","t","r","e","e",
      "s","."," ","A","l","r","i","g","h","t",","," ","w","e"," ","a","r","e"," ","d","o","n",
      "e"," ","n","o","w",".">>

\* a transcript whose sentences lie on the thresholds of is_coherent_english: one common
\* word among four, none among four, nine characters, ten characters
CoherenceExample ==
  <<"T","r","e","e","s"," ","c","o","n","t","a","i","n"," ","l","e","a","v","e","s"," ","n","o",
      "w","?"," ","G","r","a","p","h","s"," ","c","o","n","t","a","i","n"," ","m","a","n","y",
      " ","v","e","r","t","i","c","e","s","."," ","I","t"," ","i","s"," ","s","o","."," ","I",
      "s"," ","i","t"," ","s","o","?","?">>

\* a transcript that begins with a dotted capital I
DottedExample ==
  <<"U+0130","s","t","a","n","b","u","l"," ","i","s"," ","w","h","e","r","e"," ","w","e"," ",
      "a","r","e",","," ","s","o"," ","t","o","d","a","y"," ","w","e"," ","c","o","v","e","r",
      " ","t","r","e","e","s",".">>

RECURSIVE Concat(_)
Concat(ks) ==
  IF Len(ks) = 0 THEN <<>>
  ELSE IF Len(ks) = 1 THEN Pieces[ks[1]]
  ELSE Pieces[ks[1]] \o <<" ">> \o Concat(Tail(ks))

PieceLists == UNION {[1..n -> 1..Len(Pieces)] : n \in 0..MaxPieces}

Inputs ==
  {Concat(ks) : ks \in PieceLists}
    \cup {GraphsExample, ProofExample, RepeatExample, LongExample, TailExample,
          CoherenceExample, DottedExample}

----------------------------------------------------------------------------
(* State of one call of clean_transcript, and of the call that follows it  *)
(* on its own result.                                                      *)

VARIABLES
  text,                 \* the argument
  cleaned_text,         \* text after the hallucination patterns are removed
  sentences,            \* the sentence sequence
  i,                    \* loop variable of the scan in progress
  start_index,
  start_char_offset,
  end_index,
  chatter_start_index,
  output,               \* the returned text
  touched,              \* indices of sentences read by the last step
  pass,                 \* 1: the call on the input, 2: the call on its result
  first_output,         \* what the first call returned
  pc

\* State of the web application (app.py): one job, the thread that runs it and one
\* client whose requests are handled while the thread runs.
VARIABLES
  jobs,                 \* the ids in the dictionary jobs
  status,               \* job.status
  progress,             \* job.progress
  transcript_path,      \* job.transcript_path
  transcripts,          \* transcripts.get(job_id)
  file_exists,          \* os.path.exists of the transcript file
  transcript,           \* the local variable of run_transcription
  wpc,                  \* position of the thread in run_transcription
  hpc,                  \* position of the request handler
  seen_status,          \* "status" of the last answer of /api/status
  seen_progress,        \* "progress" of the last answer of /api/status
  response              \* the last answer of /api/download or /api/transcript

clean_vars ==
  <<text, cleaned_text, sentences, i, start_index, start_char_offset, end_index,
    chatter_start_index, output, touched, pass, first_output, pc>>

job_vars ==
  <<jobs, status, progress, transcript_path, transcripts, file_exists, transcript, wpc, hpc,
    seen_status, seen_progress, response>>

vars == <<clean_vars, job_vars>>

\* no job has been created
NoJob ==
  /\ jobs = {}
  /\ status = "None"
  /\ progress = 0
  /\ transcript_path = "None"
  /\ transcripts = "None"
  /\ file_exists = FALSE
  /\ transcript = "None"
  /\ wpc = 0
  /\ hpc = "idle"
  /\ seen_status = "None"
  /\ seen_progress = 0
  /\ response = "None"

N == Len(sentences)

Init ==
  /\ text \in Inputs
  /\ cleaned_text = <<>>
  /\ sentences = <<>>
  /\ i = 0
  /\ start_index = 0
  /\ start_char_offset = 0
  /\ end_index = 0
  /\ chatter_start_index = None
  /\ output = <<>>
  /\ touched = {}
  /\ pass = 1
  /\ first_output = <<>>
  /\ pc = "normalize"
  /\ NoJob

\* the loop over hallucination_patterns
RemoveHallucinations ==
  /\ pc = "normalize"
  /\ cleaned_text' = Normalize(text)
  /\ pc' = "split"
  /\ UNCHANGED <<text, sentences, i, start_index, start_char_offset, end_index,
                 chatter_start_index, output, touched, pass, first_output>>
  /\ UNCHANGED job_vars

\* sentences = re.split(...); start_index = 0; start_char_offset = 0
Split ==
  /\ pc = "split"
  /\ sentences' = SplitSentences(cleaned_text)
  /\ start_index' = 0
  /\ start_char_offset' = 0
  /\ i' = 0
  /\ touched' = {}
  /\ pc' = "start_patterns"
  /\ UNCHANGED <<text, cleaned_text, end_index, chatter_start_index, output, pass,
                 first_output>>
  /\ UNCHANGED job_vars

\* one pass of the inner loop over lecture_start_patterns, for sentence i
StartPatterns ==
  /\ pc = "start_patterns"
  /\ i < N
  /\ LET match == FirstMatch(lecture_start_patterns, 1, Lower(sentences[i + 1]))
     IN IF match # <<>>
        THEN start_index' = i /\ start_char_offset' = match[1]
        ELSE UNCHANGED <<start_index, start_char_offset>>
  /\ touched' = {i}
  /\ pc' = "start_check"
  /\ UNCHANGED <<text, cleaned_text, sentences, i, end_index, chatter_start_index, output,
                 pass, first_output>>
  /\ UNCHANGED job_vars

\* if start_char_offset > 0: break
StartBreak ==
  /\ pc = "start_check"
  /\ start_char_offset > 0
  /\ touched' = {}
  /\ pc' = "tail"
  /\ UNCHANGED <<text, cleaned_text, sentences, i, start_index, start_char_offset, end_index,
                 chatter_start_index, output, pass, first_output>>
  /\ UNCHANGED job_vars

\* the fallback on a coherent sentence of more than 50 characters
StartFallback ==
  /\ pc = "start_check"
  /\ ~(start_char_offset > 0)
  /\ Substantial(sentences[i + 1])
  /\ IF LookAheadInRange(i, N)
     THEN IF is_coherent_english(At(sentences, i + 1))
          THEN /\ touched' = {i + 1}
               /\ start_index' = i
               /\ pc' = "tail"
               /\ i' = i
          ELSE /\ touched' = {i + 1, i + 2}
               /\ IF is_coherent_english(At(sentences, i + 2))
                  THEN start_index' = i /\ pc' = "tail" /\ i' = i
                  ELSE start_index' = start_index /\ pc' = "start_patterns" /\ i' = i + 1
     ELSE /\ touched' = {}
          /\ start_index' = i
          /\ pc' = "tail"
          /\ i' = i
  /\ UNCHANGED <<text, cleaned_text, sentences, start_char_offset, end_index,
                 chatter_start_index, output, pass, first_output>>
  /\ UNCHANGED job_vars

\* neither break is taken: the loop goes on to the next sentence
StartNext ==
  /\ pc = "start_check"
  /\ ~(start_char_offset > 0)
  /\ ~Substantial(sentences[i + 1])
  /\ i' = i + 1
  /\ touched' = {}
  /\ pc' = "start_patterns"
  /\ UNCHANGED <<text, cleaned_text, sentences, start_index, start_char_offset, end_index,
                 chatter_start_index, output, pass, first_output>>
  /\ UNCHANGED job_vars

\* the loop over the sentences is exhausted
StartDone ==
  /\ pc = "start_patterns"
  /\ ~(i < N)
  /\ touched' = {}
  /\ pc' = "tail"
  /\ UNCHANGED <<text, cleaned_text, sentences, i, start_index, start_char_offset, end_index,
                 chatter_start_index, output, pass, first_output>>
  /\ UNCHANGED job_vars

\* end_index = len(sentences); chatter_start_index = None
TailInit ==
  /\ pc = "tail"
  /\ end_index' = N
  /\ chatter_start_index' = None
  /\ i' = N - 1
  /\ touched' = {}
  /\ pc' = "chatter"
  /\ UNCHANGED <<text, cleaned_text, sentences, start_index, start_char_offset, output, pass,
                 first_output>>
  /\ UNCHANGED job_vars

\* a scan that keeps its first hit, the one nearest the end
ChatterStepFirstHit ==
  /\ pc = "chatter"
  /\ i > ChatterScanStop(N)
  /\ chatter_start_index' =
       IF ~Truthy(chatter_start_index) /\ IsChatter(At(sentences, i)) THEN i
       ELSE chatter_start_index
  /\ touched' = {i}
  /\ i' = i - 1
  /\ UNCHANGED <<text, cleaned_text, sentences, start_index, start_char_offset, end_index,
                 output, pass, first_output, pc>>
  /\ UNCHANGED job_vars

\* one pass of the backward chatter scan, for sentence i
ChatterStep ==
  /\ pc = "chatter"
  /\ i > ChatterScanStop(N)
  /\ chatter_start_index' = IF IsChatter(At(sentences, i)) THEN i ELSE chatter_start_index
  /\ touched' = {i}
  /\ i' = i - 1
  /\ UNCHANGED <<text, cleaned_text, sentences, start_index, start_char_offset, end_index,
                 output, pass, first_output, pc>>
  /\ UNCHANGED job_vars

\* if chatter_start_index: end_index = chatter_start_index
ChatterDone ==
  /\ pc = "chatter"
  /\ ~(i > ChatterScanStop(N))
  /\ end_index' = IF Truthy(chatter_start_index) THEN chatter_start_index ELSE end_index
  /\ touched' = {}
  /\ pc' = "strip"
  /\ UNCHANGED <<text, cleaned_text, sentences, i, start_index, start_char_offset,
                 chatter_start_index, output, pass, first_output>>
  /\ UNCHANGED job_vars

\* one pass of the trailing strip that drops sentences[end_index - 1]
StripDrop ==
  /\ pc = "strip"
  /\ StripRuns(start_index, end_index)
  /\ DropsLast(At(sentences, end_index - 1))
  /\ end_index' = end_index - 1
  /\ touched' = {end_index - 1}
  /\ UNCHANGED <<text, cleaned_text, sentences, i, start_index, start_char_offset,
                 chatter_start_index, output, pass, first_output, pc>>
  /\ UNCHANGED job_vars

\* the trailing strip ends: its condition fails, or the last sentence is kept (break)
StripDone ==
  /\ pc = "strip"
  /\ IF StripRuns(start_index, end_index)
     THEN ~DropsLast(At(sentences, end_index - 1)) /\ touched' = {end_index - 1}
     ELSE touched' = {}
  /\ i' = end_index - 1
  /\ pc' = "collapse"
  /\ UNCHANGED <<text, cleaned_text, sentences, start_index, start_char_offset, end_index,
                 chatter_start_index, output, pass, first_output>>
  /\ UNCHANGED job_vars

\* the repetition check is not entered
CollapseSkip ==
  /\ pc = "collapse"
  /\ ~CollapserRuns(start_index, end_index)
  /\ touched' = {}
  /\ pc' = "assemble"
  /\ UNCHANGED <<text, cleaned_text, sentences, i, start_index, start_char_offset, end_index,
                 chatter_start_index, output, pass, first_output>>
  /\ UNCHANGED job_vars

\* one pass of the repetition check, for the window sentences[i:end_index]
CollapseStep ==
  /\ pc = "collapse"
  /\ CollapserRuns(start_index, end_index)
  /\ i > CollapserStop(start_index, end_index)
  /\ touched' = i..(end_index - 1)
  /\ IF IsRepeatedRun(sentences, i, end_index)
     THEN end_index' = i /\ pc' = "assemble" /\ i' = i
     ELSE end_index' = end_index /\ pc' = "collapse" /\ i' = i - 1
  /\ UNCHANGED <<text, cleaned_text, sentences, start_index, start_char_offset,
                 chatter_start_index, output, pass, first_output>>
  /\ UNCHANGED job_vars

\* the repetition check found no repeated run
CollapseDone ==
  /\ pc = "collapse"
  /\ CollapserRuns(start_index, end_index)
  /\ ~(i > CollapserStop(start_index, end_index))
  /\ touched' = {}
  /\ pc' = "assemble"
  /\ UNCHANGED <<text, cleaned_text, sentences, i, start_index, start_char_offset, end_index,
                 chatter_start_index, output, pass, first_output>>
  /\ UNCHANGED job_vars

\* the cleaned text is put together and returned
Assemble ==
  /\ pc = "assemble"
  /\ output' = AssembleText(sentences, start_index, end_index, start_char_offset)
  /\ touched' = {}
  /\ pc' = "done"
  /\ UNCHANGED <<text, cleaned_text, sentences, i, start_index, start_char_offset, end_index,
                 chatter_start_index, pass, first_output>>
  /\ UNCHANGED job_vars

\* clean_transcript is called again, on the text it returned
Rerun ==
  /\ pc = "done"
  /\ pass = 1
  /\ pass' = 2
  /\ first_output' = output
  /\ text' = output
  /\ cleaned_text' = <<>>
  /\ sentences' = <<>>
  /\ i' = 0
  /\ start_index' = 0
  /\ start_char_offset' = 0
  /\ end_index' = 0
  /\ chatter_start_index' = None
  /\ output' = <<>>
  /\ touched' = {}
  /\ pc' = "normalize"
  /\ UNCHANGED job_vars

Next ==
  \/ RemoveHallucinations
  \/ Split
  \/ StartPatterns
  \/ StartBreak
  \/ StartFallback
  \/ StartNext
  \/ StartDone
  \/ TailInit
  \/ ChatterStep
  \/ ChatterDone
  \/ StripDrop
  \/ StripDone
  \/ CollapseSkip
  \/ CollapseStep
  \/ CollapseDone
  \/ Assemble
  \/ Rerun

Spec == Init /\ [][Next]_vars

----------------------------------------------------------------------------
(* The web application: run_transcription in its thread, and the handlers  *)
(* of /api/transcribe, /api/status, /api/download and /api/transcript.     *)
(* Every read and every assignment of a field of the job is a step of its  *)
(* own: the thread and a handler interleave between any two of them.       *)

\* run_transcription: its assignments to the job and its calls, in order
run_transcription ==
  << <<"status", "capturing">>, <<"progress", 5>>,
     <<"status", "downloading">>, <<"progress", 10>>,
     <<"call", "download_audio">>, <<"progress", 30>>,
     <<"status", "transcribing">>, <<"progress", 40>>,
     <<"call", "transcribe_audio">>, <<"progress", 80>>,
     <<"status", "cleaning">>, <<"progress", 85>>,
     <<"call", "clean_transcript">>, <<"progress", 90>>,
     <<"call", "save_transcript">>,
     <<"status", "complete">>, <<"progress", 100>>,
     <<"transcript_path", "path">>,
     <<"transcripts", "transcript">> >>

\* positions of the thread: before statement wpc of run_transcription, in the except
\* clause (two assignments), returned
Returned == Len(run_transcription) + 1
Except == Len(run_transcription) + 2
Running == wpc \in 1..Len(run_transcription)
Statement == run_transcription[wpc]

\* the calls that can raise
Raising == {"download_audio", "transcribe_audio", "save_transcript"}

\* api_transcribe: the job is created, queued, and its thread is started
ApiTranscribe ==
  /\ hpc = "idle"
  /\ jobs = {}
  /\ jobs' = {"job_id"}
  /\ status' = "queued"
  /\ progress' = 0
  /\ transcript_path' = "None"
  /\ wpc' = 1
  /\ UNCHANGED <<transcripts, file_exists, transcript, hpc, seen_status, seen_progress,
                 response>>
  /\ UNCHANGED clean_vars

\* job.status = ...
WorkerSetStatus ==
  /\ Running
  /\ Statement[1] = "status"
  /\ status' = Statement[2]
  /\ wpc' = wpc + 1
  /\ UNCHANGED <<jobs, progress, transcript_path, transcripts, file_exists, transcript, hpc,
                 seen_status, seen_progress, response>>
  /\ UNCHANGED clean_vars

\* job.progress = ...
WorkerSetProgress ==
  /\ Running
  /\ Statement[1] = "progress"
  /\ progress' = Statement[2]
  /\ wpc' = wpc + 1
  /\ UNCHANGED <<jobs, status, transcript_path, transcripts, file_exists, transcript, hpc,
                 seen_status, seen_progress, response>>
  /\ UNCHANGED clean_vars

\* download_audio, transcribe_audio return
WorkerCall ==
  /\ Running
  /\ Statement[1] = "call"
  /\ Statement[2] \in {"download_audio", "transcribe_audio"}
  /\ wpc' = wpc + 1
  /\ UNCHANGED <<jobs, status, progress, transcript_path, transcripts, file_exists,
                 transcript, hpc, seen_status, seen_progress, response>>
  /\ UNCHANGED clean_vars

\* transcript = clean_transcript(transcript): an empty or a non-empty text
WorkerClean ==
  /\ Running
  /\ Statement[1] = "call"
  /\ Statement[2] = "clean_transcript"
  /\ transcript' \in {"", "text"}
  /\ wpc' = wpc + 1
  /\ UNCHANGED <<jobs, status, progress, transcript_path, transcripts, file_exists, hpc,
                 seen_status, seen_progress, response>>
  /\ UNCHANGED clean_vars

\* save_transcript(transcript, str(output_path)) returns: the file is written
WorkerSave ==
  /\ Running
  /\ Statement[1] = "call"
  /\ Statement[2] = "save_transcript"
  /\ file_exists' = TRUE
  /\ wpc' = wpc + 1
  /\ UNCHANGED <<jobs, status, progress, transcript_path, transcripts, transcript, hpc,
                 seen_status, seen_progress, response>>
  /\ UNCHANGED clean_vars

\* a call raises: control goes to the except clause
WorkerCallRaises ==
  /\ Running
  /\ Statement[1] = "call"
  /\ Statement[2] \in Raising
  /\ wpc' = Except
  /\ UNCHANGED <<jobs, status, progress, transcript_path, transcripts, file_exists,
                 transcript, hpc, seen_status, seen_progress, response>>
  /\ UNCHANGED clean_vars

\* job.transcript_path = str(output_path)
WorkerStorePath ==
  /\ Running
  /\ Statement[1] = "transcript_path"
  /\ transcript_path' = Statement[2]
  /\ wpc' = wpc + 1
  /\ UNCHANGED <<jobs, status, progress, transcripts, file_exists, transcript, hpc,
                 seen_status, seen_progress, response>>
  /\ UNCHANGED clean_vars

\* transcripts[job_id] = transcript
WorkerCache ==
  /\ Running
  /\ Statement[1] = "transcripts"
  /\ transcripts' = transcript
  /\ wpc' = wpc + 1
  /\ UNCHANGED <<jobs, status, progress, transcript_path, file_exists, transcript, hpc,
                 seen_status, seen_progress, response>>
  /\ UNCHANGED clean_vars

\* except: job.status = "error"
WorkerExceptStatus ==
  /\ wpc = Except
  /\ status' = "error"
  /\ wpc' = Except + 1
  /\ UNCHANGED <<jobs, progress, transcript_path, transcripts, file_exists, transcript, hpc,
                 seen_status, seen_progress, response>>
  /\ UNCHANGED clean_vars

\* except: job.progress = 0
WorkerExceptProgress ==
  /\ wpc = Except + 1
  /\ progress' = 0
  /\ wpc' = Returned
  /\ UNCHANGED <<jobs, status, transcript_path, transcripts, file_exists, transcript, hpc,
                 seen_status, seen_progress, response>>
  /\ UNCHANGED clean_vars

\* a request for a job that jobs does not hold
ApiJobNotFound ==
  /\ hpc = "idle"
  /\ jobs = {}
  /\ response' = "404 Job not found"
  /\ UNCHANGED <<jobs, status, progress, transcript_path, transcripts, file_exists,
                 transcript, wpc, hpc, seen_status, seen_progress>>
  /\ UNCHANGED clean_vars

\* api_status: job.to_dict() reads job.status
ApiStatus ==
  /\ hpc = "idle"
  /\ jobs # {}
  /\ seen_status' = status
  /\ hpc' = "to_dict"
  /\ UNCHANGED <<jobs, status, progress, transcript_path, transcripts, file_exists,
                 transcript, wpc, seen_progress, response>>
  /\ UNCHANGED clean_vars

\* api_status: job.to_dict() reads job.progress, and the answer is sent
ApiStatusReturn ==
  /\ hpc = "to_dict"
  /\ seen_progress' = progress
  /\ hpc' = "idle"
  /\ UNCHANGED <<jobs, status, progress, transcript_path, transcripts, file_exists,
                 transcript, wpc, seen_status, response>>
  /\ UNCHANGED clean_vars

\* api_download: if job.status != "complete": 400
ApiDownload ==
  /\ hpc = "idle"
  /\ jobs # {}
  /\ IF status # "complete"
     THEN response' = "400 Transcription not complete yet" /\ hpc' = "idle"
     ELSE response' = response /\ hpc' = "download_path"
  /\ UNCHANGED <<jobs, status, progress, transcript_path, transcripts, file_exists,
                 transcript, wpc, seen_status, seen_progress>>
  /\ UNCHANGED clean_vars

\* api_download: if not job.transcript_path or not os.path.exists(...): 404, else the file
ApiDownloadSend ==
  /\ hpc = "download_path"
  /\ response' = IF transcript_path = "None" \/ ~file_exists
                 THEN "404 Transcript file not found"
                 ELSE "200 file"
  /\ hpc' = "idle"
  /\ UNCHANGED <<jobs, status, progress, transcript_path, transcripts, file_exists,
                 transcript, wpc, seen_status, seen_progress>>
  /\ UNCHANGED clean_vars

\* api_get_transcript: if job.status != "complete": 400
ApiGetTranscript ==
  /\ hpc = "idle"
  /\ jobs # {}
  /\ IF status # "complete"
     THEN response' = "400 Transcription not complete yet" /\ hpc' = "idle"
     ELSE response' = response /\ hpc' = "transcripts_get"
  /\ UNCHANGED <<jobs, status, progress, transcript_path, transcripts, file_exists,
                 transcript, wpc, seen_status, seen_progress>>
  /\ UNCHANGED clean_vars

\* api_get_transcript: transcript = transcripts.get(job_id); if not transcript: ...
ApiGetTranscriptCached ==
  /\ hpc = "transcripts_get"
  /\ IF transcripts \notin {"None", ""}
     THEN response' = "200 transcript" /\ hpc' = "idle"
     ELSE response' = response /\ hpc' = "transcript_file"
  /\ UNCHANGED <<jobs, status, progress, transcript_path, transcripts, file_exists,
                 transcript, wpc, seen_status, seen_progress>>
  /\ UNCHANGED clean_vars

\* api_get_transcript: the transcript is read from the file and cached, or 404
ApiGetTranscriptFile ==
  /\ hpc = "transcript_file"
  /\ IF transcript_path # "None" /\ file_exists
     THEN transcripts' = transcript /\ response' = "200 transcript"
     ELSE transcripts' = transcripts /\ response' = "404 Transcript not found"
  /\ hpc' = "idle"
  /\ UNCHANGED <<jobs, status, progress, transcript_path, file_exists, transcript, wpc,
                 seen_status, seen_progress>>
  /\ UNCHANGED clean_vars

JobInit ==
  /\ text = <<>>
  /\ cleaned_text = <<>>
  /\ sentences = <<>>
  /\ i = 0
  /\ start_index = 0
  /\ start_char_offset = 0
  /\ end_index = 0
  /\ chatter_start_index = None
  /\ output = <<>>
  /\ touched = {}
  /\ pass = 1
  /\ first_output = <<>>
  /\ pc = "normalize"
  /\ NoJob

JobNext ==
  \/ ApiTranscribe
  \/ WorkerSetStatus
  \/ WorkerSetProgress
  \/ WorkerCall
  \/ WorkerClean
  \/ WorkerSave
  \/ WorkerCallRaises
  \/ WorkerStorePath
  \/ WorkerCache
  \/ WorkerExceptStatus
  \/ WorkerExceptProgress
  \/ ApiJobNotFound
  \/ ApiStatus
  \/ ApiStatusReturn
  \/ ApiDownload
  \/ ApiDownloadSend
  \/ ApiGetTranscript
  \/ ApiGetTranscriptCached
  \/ ApiGetTranscriptFile

JobSpec == JobInit /\ [][JobNext]_vars

----------------------------------------------------------------------------
(* Properties.                                                             *)

\* end_index has been assigned
EndIndexSet == pc \in {"chatter", "strip", "collapse", "assemble", "done"}

\* the start scan is over
StartScanOver == pc \in {"tail", "chatter", "strip", "collapse", "assemble", "done"}

\* the kept sentences, sentences[start_index:end_index]
Kept == SubSeq(sentences, start_index + 1, end_index)

IsSuffix(a, b) == Len(a) <= Len(b) /\ SubSeq(b, Len(b) - Len(a) + 1, Len(b)) = a

Alphabet ==
  WordChar \cup Space \cup Terminal \cup {",", "'", CombiningDot}

\* C1: from the moment end_index is assigned (after the chatter scan, after every pass
\* of the trailing strip, after the repetition check, at assembly),
\* 0 <= start_index <= end_index <= N.
RangeOrdered ==
  EndIndexSet => 0 <= start_index /\ start_index <= end_index /\ end_index <= N

\* C2: every sentence index a step reads lies in 0..N-1, whatever N is, and the text
\* returned is a string.
IndicesInRange ==
  /\ touched \subseteq 0..(N - 1)
  /\ pc = "done" => output \in Seq(Alphabet)

\* the look-ahead has read sentences[i + 1] and sentences[i + 2], the second being the
\* last sentence of a sequence
LookAheadReadsLastSentence ==
  /\ pc \in {"tail", "start_patterns"}
  /\ Cardinality(touched) = 2
  /\ (N - 1) \in touched

\* C3: the returned text is not longer than the text left by the removal of the
\* hallucination patterns.
OutputNotLonger == pc = "done" => Len(output) <= Len(cleaned_text)

\* a run in which the hallucination patterns removed something and the later stages
\* removed more, without removing everything
OutputShorterThanRemoved ==
  /\ pc = "done"
  /\ 0 < Len(output)
  /\ Len(output) < Len(cleaned_text)
  /\ Len(cleaned_text) < Len(text)

\* C4, as stated: the returned text is the kept sentences joined by single blanks, in
\* order, each once and unmodified, but for a prefix removed at its beginning.
OutputIsKeptJoined == pc = "done" => IsSuffix(output, Join(Kept))

\* C4, amended: the returned text is the kept sentences joined by single blanks, in
\* order and each once, with every run of whitespace collapsed to one blank and the
\* whitespace at both ends removed, but for a prefix removed at its beginning.
OutputIsKeptJoinedCollapsed ==
  pc = "done" => IsSuffix(output, Strip(CollapseWhitespace(Join(Kept))))

\* a run that keeps at least two sentences, trims the first at a character offset and
\* collapses whitespace inside a kept sentence
OutputCollapsedInsideSentence ==
  /\ pc = "done"
  /\ end_index - start_index >= 2
  /\ start_char_offset > 0
  /\ ~IsSuffix(output, Join(Kept))

\* every sentence, trimmed and lower-cased, is a filler phrase
AllFiller == \A k \in 1..N : Lower(Strip(sentences[k])) \in thank_you_variants

\* C5: when every sentence is a filler phrase, the trailing strip brings end_index down
\* to start_index and the returned text is empty.
FillerOnlyGivesEmpty ==
  pc = "done" /\ AllFiller => end_index = start_index /\ output = <<>>

\* a run on three or more filler sentences
FillerOnlyRun == pc = "done" /\ pass = 1 /\ N >= 3 /\ AllFiller /\ output = <<>>

\* C6: the empty text gives the empty text, and so does every run whose final kept
\* range is empty.
EmptyRangeGivesEmpty ==
  /\ pc = "done" /\ text = <<>> => output = <<>>
  /\ pc = "done" /\ end_index <= start_index => output = <<>>

\* a run on a text of several sentences that keeps none of them
EmptyRangeRun ==
  pc = "done" /\ pass = 1 /\ N >= 2 /\ end_index = start_index /\ end_index < N

\* C7: on the transcript of the graphs example the script run is removed, the start
\* boundary is sentence 0 at the match of the first pattern of the list that matches
\* (the second one, at the blank before "today"), the chatter scan finds nothing, the
\* trailing strip drops the three filler sentences, and the returned text is the
\* expected one.
GraphsExampleCleaned ==
  text = GraphsExample /\ pass = 1 =>
    /\ pc # "normalize" => cleaned_text = SubSeq(GraphsExample, 4, Len(GraphsExample))
    /\ StartScanOver =>
         /\ start_index = 0
         /\ Search(lecture_start_patterns[1], Lower(sentences[1])) = <<>>
         /\ start_char_offset = Search(lecture_start_patterns[2], Lower(sentences[1]))[1]
         /\ SubSeq(sentences[1], start_char_offset + 1, start_char_offset + 6) = <<" ","t","o",
             "d","a","y">>
    /\ pc = "strip" => chatter_start_index = None /\ end_index \in 2..5
    /\ pc \in {"collapse", "assemble", "done"} => end_index = 2
    /\ pc = "done" => output = GraphsExpected

\* the run on the graphs example has returned
GraphsExampleDone == text = GraphsExample /\ pass = 1 /\ pc = "done"

\* index of the first "Okay." among the sentences
FirstOkay == Min({k \in 0..(N - 1) : Lower(sentences[k + 1]) = <<"o","k","a","y",".">>})

\* C8, as stated: on the proof example the five "Okay." are still in the kept range
\* when the repetition check starts, which is the stage that cuts them.
OkayRunLeftToCollapser ==
  text = ProofExample /\ pass = 1 /\ pc = "collapse" => end_index = N

\* C8, amended: on the proof example the chatter scan sets end_index to the index of
\* the first "Okay.", the trailing strip and the repetition check leave it there, and
\* the returned text ends with the sentence about the proof.
OkayRunCutByChatterScan ==
  text = ProofExample /\ pass = 1 =>
    /\ pc \in {"strip", "collapse", "assemble", "done"} =>
         /\ end_index = FirstOkay
         /\ start_index = 0
         /\ sentences[FirstOkay] = <<"I","t"," ","f","o","l","l","o","w","s"," ","t","h","a",
             "t"," ","t","h","e"," ","p","r","o","o","f"," ","i","s"," ","c","o","m","p","l",
             "e","t","e",".">>
         /\ N = FirstOkay + 5
    /\ pc = "done" =>
         /\ output = SubSeq(ProofExample, 1, Len(ProofExample) - 30)
         /\ IsSuffix(<<"t","h","e"," ","p","r","o","o","f"," ","i","s"," ","c","o","m","p","l",
             "e","t","e",".">>, output)

\* the repetition check has run over the proof example and found no repeated run
ProofExampleCollapserDone ==
  /\ text = ProofExample
  /\ pass = 1
  /\ pc = "assemble"
  /\ CollapserRuns(start_index, end_index)
  /\ i = CollapserStop(start_index, end_index)

\* C9: the call on the returned text returns it unchanged.
Idempotent == pc = "done" /\ pass = 2 => output = first_output

\* C10: the scan over the sentences stops at the first sentence in which a pattern
\* matches, at whatever position: it reaches sentence i only if no pattern matched in
\* sentence i - 1.
StopsOnFirstMatch ==
  pc = "start_patterns" /\ i > 0 =>
    FirstMatch(lecture_start_patterns, 1, Lower(sentences[i])) = <<>>

\* indices of the sentences in which some lecture-start pattern matches
Matching ==
  {k \in 0..(N - 1) : FirstMatch(lecture_start_patterns, 1, Lower(sentences[k + 1])) # <<>>}

\* C11: when the start scan is over and some sentence matches a lecture-start pattern,
\* start_index is the index of the first sentence that matches, whatever the coherent
\* sentences before it; the fallback decides only when no sentence matches.
FallbackOnlyWithoutMatch ==
  pc = "tail" /\ Matching # {} => start_index = Min(Matching)

\* indices of the coherent sentences of more than 50 characters with a coherent sentence
\* in one of the next two positions
Anchored ==
  {k \in 0..(N - 1) :
     /\ Substantial(sentences[k + 1])
     /\ \/ is_coherent_english(At(sentences, k + 1))
        \/ is_coherent_english(At(sentences, k + 2))}

\* C12: when the start scan is over and no sentence matches a lecture-start pattern,
\* start_char_offset is 0 and start_index is the first coherent sentence of more than 50
\* characters with a coherent sentence in one of the next two positions, or 0 when there
\* is none.
FallbackSelection ==
  pc = "tail" /\ Matching = {} =>
    /\ start_char_offset = 0
    /\ start_index = IF Anchored = {} THEN 0 ELSE Min(Anchored)

\* the last 30 sentences that are not before start_index
ChatterWindow == {k \in 0..(N - 1) : k >= start_index /\ k >= N - 30}

\* the sentences of the window that match a chatter pattern
ChatterHits == {k \in ChatterWindow : IsChatter(sentences[k + 1])}

\* C13: the chatter scan reads no sentence before start_index, and when it is over
\* end_index is the smallest index among the last 30 sentences, from start_index on,
\* that matches a chatter pattern, or N when none matches.
ChatterScanEarliestInWindow ==
  /\ pc = "chatter" => touched \subseteq start_index..(N - 1)
  /\ pc = "strip" /\ touched = {} =>
       end_index = IF ChatterHits = {} THEN N ELSE Min(ChatterHits)

\* the candidate cut points from end - 1 down to max(end - 15, start), both included
CandidatesInclusive(start, end) == (IF end - 15 > start THEN end - 15 ELSE start)..(end - 1)

\* the candidates whose window sentences[k:end_index] is a repeated run
CutPoints ==
  {k \in CandidatesInclusive(start_index, end_index) : IsRepeatedRun(sentences, k, end_index)}

\* C14: the repetition check leaves end_index alone unless end_index - start_index > 5
\* and some candidate from end_index - 1 down to max(end_index - 15, start_index),
\* both included, has a repeated run as its window; it then sets end_index to the
\* largest such candidate.
CollapserCutsAtLargestCandidate ==
  [][pc = "collapse" /\ pc' = "assemble" =>
       end_index' =
         IF end_index - start_index > 5 /\ CutPoints # {}
         THEN CHOOSE k \in CutPoints : \A j \in CutPoints : k >= j
         ELSE end_index]_vars

\* C19: a step of the repetition check that changes end_index leaves it above
\* start_index and at most 14 below its old value, and changes neither start_index nor
\* start_char_offset.
CollapserCutIsBounded ==
  [][pc = "collapse" /\ end_index' # end_index =>
       /\ end_index' > start_index
       /\ end_index' >= end_index - 14
       /\ end_index' < end_index
       /\ start_index' = start_index
       /\ start_char_offset' = start_char_offset]_vars

\* the repetition check has cut a repeated run: it stopped at candidate i, above the
\* stop value of its range, and set end_index to it
CollapserHasCut ==
  /\ pc = "assemble"
  /\ i = end_index
  /\ i > start_index
  /\ N - end_index >= 3

\* the informal indicators that s contains as words of their own
InformalWords(s) ==
  {k \in 1..Len(informal_indicators) :
     Search(Cat(<<WordB, Lit(informal_indicators[k]), WordB>>), s) # <<>>}

\* the three drop conditions of the trailing strip, the third one on indicator words
DropsAsStated(sentence) ==
  LET last_sentence == Lower(Strip(sentence))
  IN \/ last_sentence \in thank_you_variants
     \/ Len(last_sentence) < 15
     \/ WordCount(last_sentence) < 10 /\ Cardinality(InformalWords(last_sentence)) >= 2

\* C15: a step of the trailing strip drops sentences[end_index - 1] exactly when
\* end_index > start_index and the sentence, trimmed and lower-cased, is a filler
\* phrase, or is shorter than 15 characters, or has fewer than 10 words and contains at
\* least 2 distinct informal-indicator words; otherwise the strip ends there and drops
\* nothing more.
TrailingStripDropsAsStated ==
  [][pc = "strip" =>
       IF end_index > start_index /\ DropsAsStated(sentences[end_index])
       THEN end_index' = end_index - 1 /\ pc' = "strip"
       ELSE end_index' = end_index /\ pc' = "collapse"]_vars

\* number of the word tokens of s that are in the dictionary
Matched(s) ==
  LET words == Words(Strip(s))
  IN Cardinality({k \in 1..Len(words) : words[k] \in common_words})

\* number of the word tokens of s
Total(s) == Len(Words(Strip(s)))

\* C16: every sentence of the sequence the split has produced is classified as coherent
\* exactly when, trimmed, it has at least 10 characters and at least 3 word tokens, and
\* at least 3 of the tokens, or at least a quarter of them, are in the dictionary.
CoherentExactlyWhenStated ==
  pc = "start_patterns" /\ i = 0 =>
    \A k \in 1..N :
      is_coherent_english(sentences[k]) <=>
        /\ Len(Strip(sentences[k])) >= 10
        /\ Total(sentences[k]) >= 3
        /\ \/ Matched(sentences[k]) >= 3
           \/ 4 * Matched(sentences[k]) >= Total(sentences[k])

\* the classifier has been applied to a sentence with exactly a quarter of its tokens in
\* the dictionary, to one with none of four, and to sentences of 9 and of 10 characters
\* with three tokens in the dictionary
CoherenceThresholdsMet ==
  /\ pc = "tail"
  /\ \E k \in 1..N :
       /\ is_coherent_english(sentences[k])
       /\ Matched(sentences[k]) < 3
       /\ 4 * Matched(sentences[k]) = Total(sentences[k])
  /\ \E k \in 1..N :
       /\ ~is_coherent_english(sentences[k])
       /\ Len(Strip(sentences[k])) >= 10
       /\ Total(sentences[k]) >= 3
  /\ \E k \in 1..N :
       /\ ~is_coherent_english(sentences[k])
       /\ Len(Strip(sentences[k])) = 9
       /\ Matched(sentences[k]) >= 3
  /\ \E k \in 1..N :
       /\ is_coherent_english(sentences[k])
       /\ Len(Strip(sentences[k])) = 10

\* the positions of sentence at which a match of some lecture-start pattern starts
StartPatternPositions(sentence) ==
  UNION {MatchStarts(lecture_start_patterns[k], Fold(sentence), 0) :
           k \in 1..Len(lecture_start_patterns)}

\* C17: when the start scan is over, start_char_offset is 0, or it is a position inside
\* sentences[start_index], after its first character, at which a match of a lecture-start
\* pattern starts in that sentence.
OffsetMeasuredInStartSentence ==
  StartScanOver =>
    \/ start_char_offset = 0
    \/ /\ start_index \in 0..(N - 1)
       /\ 0 < start_char_offset
       /\ start_char_offset < Len(sentences[start_index + 1])
       /\ start_char_offset \in StartPatternPositions(sentences[start_index + 1])

\* s has a terminal punctuation mark followed by whitespace
HasBoundary(s) == \E k \in 1..(Len(s) - 1) : s[k] \in Terminal /\ s[k + 1] \in Space

\* the sentences ss[k], ss[k+1], ... are found one after the other in s from position p on
RECURSIVE InOrder(_, _, _, _)
InOrder(ss, k, s, p) ==
  IF k > Len(ss) THEN TRUE
  ELSE \E q \in p..(Len(s) - Len(ss[k])) :
         /\ SubSeq(s, q + 1, q + Len(ss[k])) = ss[k]
         /\ InOrder(ss, k + 1, s, q + Len(ss[k]))

\* the split has just been made
SplitMade == pc = "start_patterns" /\ i = 0

\* C18, as stated: the empty text gives no sentence, a text without a terminal mark
\* followed by whitespace gives itself as its one sentence, and the sentences are parts
\* of the text, unaltered and in order.
SegmenterEmptyGivesNone ==
  SplitMade =>
    /\ cleaned_text = <<>> => N = 0
    /\ ~HasBoundary(cleaned_text) => sentences = <<cleaned_text>>
    /\ InOrder(sentences, 1, cleaned_text, 0)

\* C18, amended: the empty text gives one sentence, the empty one; a text without a
\* terminal mark followed by whitespace gives itself as its one sentence; the sentences
\* are parts of the text, unaltered and in order, and there is always at least one.
SegmenterEmptyGivesOneEmpty ==
  SplitMade =>
    /\ N >= 1
    /\ cleaned_text = <<>> => sentences = << <<>> >>
    /\ ~HasBoundary(cleaned_text) => sentences = <<cleaned_text>>
    /\ InOrder(sentences, 1, cleaned_text, 0)

\* the empty text has been split
EmptyTextSplit == SplitMade /\ pass = 1 /\ cleaned_text = <<>> /\ N = 1

\* C20: whenever the job's status is "complete" its transcript_path is set and its
\* progress is 100, and a client that /api/status has told "complete" gets no 404 for a
\* missing transcript from /api/download or /api/transcript.
CompleteMeansStored ==
  /\ status = "complete" => transcript_path # "None" /\ progress = 100
  /\ seen_status = "complete" =>
       response \notin {"404 Transcript file not found", "404 Transcript not found"}

====
